---- MODULE Spec2Model ----
(***************************************************************************)
(* Model of notebooks/multiple_plotly_figs_to_html_file.ipynb: the three   *)
(* functions combine_plotly_figs_to_html, convert_logo and add_html_header *)
(* and the notebook that calls them.                                       *)
(*                                                                         *)
(* Text is a sequence of tokens (strings).  A file on disk holds the bytes *)
(* of such a text; the tokens "CR", "LF" and "BAD" stand for a carriage    *)
(* return, a line feed and a byte the default encoding cannot decode.      *)
(* A Python Optional is a record [none, val]; Python's truthiness of a str *)
(* or list is Truthy.  Python's 0-based index i addresses element i + 1 of *)
(* a TLA+ sequence.                                                        *)
(***************************************************************************)
EXTENDS Integers, Sequences, FiniteSets, TLC

\* ------------------------------------------------------------------ bounds
MaxFigs == 2
MaxHeights == 2
MaxImageLen == 3
MaxContentLen == 3

\* ------------------------------------------------------------ input domains
FigIds == {1, 2}
HeightVals == {200, 400}
HtmlFile == "combined.html"
OtherFile == "other.html"
FileNames == {HtmlFile, OtherFile}
PlotlyJsModes == {"cdn", "inline"}
ByteVals == {77, 250}
ContentTokens == {"x", "BAD", "CR", "LF"}

NoneVal == [none |-> TRUE, val |-> <<>>]
Some(v) == [none |-> FALSE, val |-> v]
Truthy(o) == ~o.none /\ o.val # <<>>

SeqsUpTo(S, n) == UNION {[1..k -> S] : k \in 0..n}

Separators == {NoneVal, Some(<<>>), Some(<<"<hr>">>), Some(<<"<br>", "CR">>)}
HeightArgs == {NoneVal} \cup {Some(h) : h \in SeqsUpTo(HeightVals, MaxHeights)}
FigLists == SeqsUpTo(FigIds, MaxFigs)
Titles == {<<"Combined Plotly Figures">>, <<>>}

\* ------------------------------------------------------------------- state
VARIABLES
    fs,         \* disk: file name -> content of the text files
    image,      \* content (bytes) of the logo image file
    height,     \* layout.height of each caller-owned Figure object
    logo,       \* the notebook's variable logo (Optional text)
    history,    \* the calls the notebook has made so far, with their outcome
    pc,         \* position of the running call
    args,       \* arguments of the running call
    i,          \* combine_plotly_figs_to_html: the loop index
    html,       \* text in hand: a to_html result, or plotly_html
    handles,    \* the open file handles: [name, mode]
    wbuf,       \* text written to the open write handle
    exc,        \* the exception a raised call raised
    events,     \* what the running call has done so far, in order
    pre         \* fs and height as they were when the call was made

vars == <<fs, image, height, logo, history, pc, args, i, html, handles, wbuf,
          exc, events, pre>>

NoArgs == [op |-> "none"]

\* The notebook calls the three functions in the order of its last cell
\* (combine, convert_logo, add_html_header); here it may leave any of them
\* out, and goes on after a call that raised.
OpIndex(op) ==
    IF op = "combine" THEN 1 ELSE IF op = "convert_logo" THEN 2 ELSE 3

LastOp == IF history = <<>> THEN 0 ELSE OpIndex(history[Len(history)].op)

\* -------------------------------------------------------- library functions

\* fig.to_html(full_html=..., include_plotlyjs=...) of the figure object fig
\* whose layout height is h: a <div> holding the plot, preceded by the
\* Plotly library's script tag unless include_plotlyjs is False, and wrapped
\* in a document when full_html is true (the library's default).
PlotToken(fig, h) ==
    "<plot fig" \o ToString(fig) \o " height=" \o ToString(h) \o ">"

PlotDiv(fig, h, js) ==
    <<"<div>">>
    \o (IF js = "False" THEN <<>> ELSE <<"<script plotly.js " \o js \o ">">>)
    \o <<PlotToken(fig, h)>>
    \o <<"</div>">>

ToHtml(fig, h, full_html, js) ==
    IF full_html
    THEN <<"<html><head></head><body>">> \o PlotDiv(fig, h, js)
         \o <<"</body></html>">>
    ELSE PlotDiv(fig, h, js)

\* open(name, "r", errors="ignore").read(): the bytes are decoded, those the
\* encoding cannot decode being dropped, and then universal newlines turn
\* "\r\n" and "\r" into "\n".
Decodable(b) == b # "BAD"

DecodeIgnore(bytes) == SelectSeq(bytes, Decodable)

RECURSIVE UniversalNewlines(_)
UniversalNewlines(text) ==
    IF text = <<>> THEN <<>>
    ELSE IF Head(text) = "CR"
         THEN IF Len(text) >= 2 /\ text[2] = "LF"
              THEN <<"LF">> \o UniversalNewlines(Tail(Tail(text)))
              ELSE <<"LF">> \o UniversalNewlines(Tail(text))
    ELSE <<Head(text)>> \o UniversalNewlines(Tail(text))

ReadText(bytes) == UniversalNewlines(DecodeIgnore(bytes))

\* ----------------------------------------------------------------- notebook

InitHeight == [f \in FigIds |-> IF f = 1 THEN 300 ELSE 450]

Frame0 ==
    /\ pc = "idle"
    /\ args = NoArgs
    /\ i = 0
    /\ html = <<>>
    /\ handles = {}
    /\ wbuf = <<>>
    /\ exc = "none"
    /\ events = <<>>

Init ==
    /\ fs = [n \in FileNames |-> <<"old">>]
    /\ image = <<137, 80>>
    /\ height = InitHeight
    /\ logo = NoneVal
    /\ history = <<>>
    /\ pre = [fs |-> fs, height |-> height]
    /\ Frame0

\* combine_plotly_figs_to_html(plotly_figs, html_fname, include_plotlyjs,
\*                             separator, auto_open, heights)
CallCombine ==
    /\ pc = "idle"
    /\ LastOp < OpIndex("combine")
    /\ \E figs \in FigLists, name \in FileNames, js \in PlotlyJsModes,
          sep \in Separators, ao \in BOOLEAN, hs \in HeightArgs :
          args' = [op |-> "combine", plotly_figs |-> figs, html_fname |-> name,
                   include_plotlyjs |-> js, separator |-> sep,
                   auto_open |-> ao, heights |-> hs]
    /\ pc' = "c_open"
    /\ pre' = [fs |-> fs, height |-> height]
    /\ i' = 0 /\ html' = <<>> /\ wbuf' = <<>> /\ exc' = "none" /\ events' = <<>>
    /\ UNCHANGED <<fs, image, height, logo, history, handles>>

Handle(name, mode) == [name |-> name, mode |-> mode]

\* a slip: the file opened with 'a', so that its previous content stays
CombineOpenAppend ==
    /\ pc = "c_open"
    /\ \/ /\ handles' = handles \cup {Handle(args.html_fname, "w")}
          /\ wbuf' = fs[args.html_fname]
          /\ events' = Append(events, [e |-> "open", mode |-> "w"])
          /\ pc' = "c_loop"
          /\ exc' = exc
          /\ fs' = fs
       \/ /\ exc' = "open"
          /\ pc' = "raised"
          /\ UNCHANGED <<handles, fs, events, wbuf>>
    /\ UNCHANGED <<image, height, logo, history, args, i, html, pre>>

\* with open(html_fname, 'w') as f:
CombineOpen ==
    /\ pc = "c_open"
    /\ \/ /\ handles' = handles \cup {Handle(args.html_fname, "w")}
          /\ fs' = [fs EXCEPT ![args.html_fname] = <<>>]
          /\ events' = Append(events, [e |-> "open", mode |-> "w"])
          /\ pc' = "c_loop"
          /\ exc' = exc
       \/ /\ exc' = "open"
          /\ pc' = "raised"
          /\ UNCHANGED <<handles, fs, events>>
    /\ UNCHANGED <<image, height, logo, history, args, i, html, wbuf, pre>>

\* f.write(text) on a text-mode handle: "\n" is written as os.linesep.
LineSep == <<"LF">>

RECURSIVE WriteText(_)
WriteText(text) ==
    IF text = <<>> THEN <<>>
    ELSE (IF Head(text) = "LF" THEN LineSep ELSE <<Head(text)>>)
         \o WriteText(Tail(text))

\* Leaving a with block: the handle is closed and what was written to it is
\* on disk (the file was truncated when it was opened for writing).
CloseWrite(name) ==
    /\ handles' = handles \ {Handle(name, "w")}
    /\ fs' = [fs EXCEPT ![name] = wbuf]
    /\ events' = Append(events, [e |-> "close", mode |-> "w"])

Fig == args.plotly_figs[i + 1]

\* for i, fig in enumerate(plotly_figs):
\*     if heights and i < len(heights): fig.update_layout(height=heights[i])
UpdateLayout ==
    /\ pc = "c_loop"
    /\ i < Len(args.plotly_figs)
    /\ IF Truthy(args.heights) /\ i < Len(args.heights.val)
       THEN /\ height' = [height EXCEPT ![Fig] = args.heights.val[i + 1]]
            /\ events' = Append(events, [e |-> "update_layout", i |-> i,
                                         height |-> args.heights.val[i + 1]])
       ELSE UNCHANGED <<height, events>>
    /\ pc' = IF i = 0 THEN "c_export" ELSE "c_sep"
    /\ UNCHANGED <<fs, image, logo, history, args, i, html, handles, wbuf, exc, pre>>

\* if separator: f.write(separator)
WriteSeparator ==
    /\ pc = "c_sep"
    /\ \/ /\ Truthy(args.separator)
          /\ wbuf' = wbuf \o WriteText(args.separator.val)
          /\ events' = Append(events, [e |-> "write", what |-> "separator", i |-> i])
          /\ pc' = "c_export"
          /\ exc' = exc
       \/ /\ Truthy(args.separator)
          /\ exc' = "write"
          /\ pc' = "c_unwind"
          /\ UNCHANGED <<wbuf, events>>
       \/ /\ ~Truthy(args.separator)
          /\ pc' = "c_export"
          /\ UNCHANGED <<wbuf, events, exc>>
    /\ UNCHANGED <<fs, image, height, logo, history, args, i, html, handles, pre>>

\* fig.to_html(include_plotlyjs=include_plotlyjs) for the first figure,
\* fig.to_html(full_html=False, include_plotlyjs=False) for the others
\* a slip: full_html left at the library's default for every figure
FullHtmlAlways == TRUE

FullHtml == i = 0
IncludePlotlyJs == IF i = 0 THEN args.include_plotlyjs ELSE "False"

Export ==
    /\ pc = "c_export"
    /\ \/ /\ html' = ToHtml(Fig, height[Fig], FullHtml, IncludePlotlyJs)
          /\ events' = Append(events,
                 [e |-> "to_html", i |-> i, fig |-> Fig, height |-> height[Fig],
                  full_html |-> FullHtml, include_plotlyjs |-> IncludePlotlyJs])
          /\ pc' = "c_write"
          /\ exc' = exc
       \/ /\ exc' = "to_html"
          /\ events' = Append(events, [e |-> "to_html_raised", i |-> i])
          /\ pc' = "c_unwind"
          /\ html' = html
    /\ UNCHANGED <<fs, image, height, logo, history, args, i, handles, wbuf, pre>>

\* f.write(<the export>), and on to the next figure
WriteHtml ==
    /\ pc = "c_write"
    /\ \/ /\ wbuf' = wbuf \o WriteText(html)
          /\ events' = Append(events, [e |-> "write", what |-> "html", i |-> i])
          /\ i' = i + 1
          /\ pc' = "c_loop"
          /\ exc' = exc
       \/ /\ exc' = "write"
          /\ pc' = "c_unwind"
          /\ UNCHANGED <<wbuf, events, i>>
    /\ UNCHANGED <<fs, image, height, logo, history, args, html, handles, pre>>

\* the loop is over: the with block is left
CombineClose ==
    /\ pc = "c_loop"
    /\ i = Len(args.plotly_figs)
    /\ CloseWrite(args.html_fname)
    /\ pc' = "c_after"
    /\ UNCHANGED <<image, height, logo, history, args, i, html, wbuf, exc, pre>>

\* a slip: the file written without a with block, so that what was written
\* is lost when the export raises
CombineUnwindDiscard ==
    /\ pc = "c_unwind"
    /\ handles' = handles \ {Handle(args.html_fname, "w")}
    /\ events' = Append(events, [e |-> "close", mode |-> "w"])
    /\ pc' = "raised"
    /\ UNCHANGED <<fs, image, height, logo, history, args, i, html, wbuf, exc,
                   pre>>

\* an exception leaves the with block: the handle is closed, the error goes
\* on to the caller
CombineUnwind ==
    /\ pc = "c_unwind"
    /\ CloseWrite(args.html_fname)
    /\ pc' = "raised"
    /\ UNCHANGED <<image, height, logo, history, args, i, html, wbuf, exc, pre>>

\* a slip: the browser opened whatever auto_open says
AutoOpenAlways ==
    /\ pc = "c_after"
    /\ events' = Append(events, [e |-> "browser", name |-> args.html_fname])
    /\ pc' = "returned"
    /\ UNCHANGED <<fs, image, height, logo, history, args, i, html, handles,
                   wbuf, exc, pre>>

\* if auto_open: webbrowser.open(uri)
AutoOpen ==
    /\ pc = "c_after"
    /\ events' = IF args.auto_open
                 THEN Append(events, [e |-> "browser", name |-> args.html_fname])
                 ELSE events
    /\ pc' = "returned"
    /\ UNCHANGED <<fs, image, height, logo, history, args, i, html, handles, wbuf,
                   exc, pre>>

\* ------------------------------------------------------------ convert_logo

\* base64.b64encode(data): every 3 bytes give 4 sextets, each written as the
\* ASCII code of its letter in the alphabet A-Z a-z 0-9 + /; a last group of
\* 1 or 2 bytes gives 2 or 3 letters and is padded with "=" (61) to 4.
B64Code(k) ==
    IF k < 26 THEN 65 + k
    ELSE IF k < 52 THEN 97 + (k - 26)
    ELSE IF k < 62 THEN 48 + (k - 52)
    ELSE IF k = 62 THEN 43 ELSE 47

\* a slip: the encoding without its "=" padding
RECURSIVE b64encodeNoPad(_)
b64encodeNoPad(data) ==
    IF data = <<>> THEN <<>>
    ELSE IF Len(data) = 1
    THEN LET n == data[1] * 65536
         IN  <<B64Code(n \div 262144), B64Code((n \div 4096) % 64)>>
    ELSE IF Len(data) = 2
    THEN LET n == data[1] * 65536 + data[2] * 256
         IN  <<B64Code(n \div 262144), B64Code((n \div 4096) % 64),
               B64Code((n \div 64) % 64)>>
    ELSE LET n == data[1] * 65536 + data[2] * 256 + data[3]
         IN  <<B64Code(n \div 262144), B64Code((n \div 4096) % 64),
               B64Code((n \div 64) % 64), B64Code(n % 64)>>
             \o b64encodeNoPad(SubSeq(data, 4, Len(data)))

RECURSIVE b64encode(_)
b64encode(data) ==
    IF data = <<>> THEN <<>>
    ELSE IF Len(data) = 1
    THEN LET n == data[1] * 65536
         IN  <<B64Code(n \div 262144), B64Code((n \div 4096) % 64), 61, 61>>
    ELSE IF Len(data) = 2
    THEN LET n == data[1] * 65536 + data[2] * 256
         IN  <<B64Code(n \div 262144), B64Code((n \div 4096) % 64),
               B64Code((n \div 64) % 64), 61>>
    ELSE LET n == data[1] * 65536 + data[2] * 256 + data[3]
         IN  <<B64Code(n \div 262144), B64Code((n \div 4096) % 64),
               B64Code((n \div 64) % 64), B64Code(n % 64)>>
             \o b64encode(SubSeq(data, 4, Len(data)))

\* bytes.decode("utf-8") of ASCII bytes: the characters with codes 43..122
AsciiFrom43 ==
    <<
      "+", ",", "-", ".", "/", "0", "1", "2", "3", "4",
      "5", "6", "7", "8", "9", ":", ";", "<", "=", ">",
      "?", "@", "A", "B", "C", "D", "E", "F", "G", "H",
      "I", "J", "K", "L", "M", "N", "O", "P", "Q", "R",
      "S", "T", "U", "V", "W", "X", "Y", "Z", "[", "backslash",
      "]", "^", "_", "backtick", "a", "b", "c", "d", "e", "f",
      "g", "h", "i", "j", "k", "l", "m", "n", "o", "p",
      "q", "r", "s", "t", "u", "v", "w", "x", "y", "z"
    >>

Utf8Decode(codes) == [k \in 1..Len(codes) |-> AsciiFrom43[codes[k] - 42]]

ImageFile == "yhat.png"

\* logo = convert_logo(file_location)
CallConvertLogo ==
    /\ pc = "idle"
    /\ LastOp < OpIndex("convert_logo")
    /\ args' = [op |-> "convert_logo", file_location |-> ImageFile]
    /\ pc' = "l_open"
    /\ pre' = [fs |-> fs, height |-> height]
    /\ i' = 0 /\ html' = <<>> /\ wbuf' = <<>> /\ exc' = "none" /\ events' = <<>>
    /\ UNCHANGED <<fs, image, height, logo, history, handles>>

\* with open(logo_path, "rb") as image_file:
LogoOpen ==
    /\ pc = "l_open"
    /\ \/ /\ handles' = handles \cup {Handle(args.file_location, "rb")}
          /\ events' = Append(events, [e |-> "open", mode |-> "rb"])
          /\ pc' = "l_read"
          /\ exc' = exc
       \/ /\ exc' = "open"
          /\ pc' = "raised"
          /\ UNCHANGED <<handles, events>>
    /\ UNCHANGED <<fs, image, height, logo, history, args, i, html, wbuf, pre>>

\* base64_logo = base64.b64encode(image_file.read()).decode("utf-8")
LogoRead ==
    /\ pc = "l_read"
    /\ \/ /\ html' = Utf8Decode(b64encode(image))
          /\ pc' = "l_close"
          /\ exc' = exc
       \/ /\ exc' = "read"
          /\ pc' = "l_close"
          /\ html' = html
    /\ UNCHANGED <<fs, image, height, logo, history, args, i, handles, wbuf,
                   events, pre>>

\* the with block is left, by its end or by the exception
LogoClose ==
    /\ pc = "l_close"
    /\ handles' = handles \ {Handle(args.file_location, "rb")}
    /\ events' = Append(events, [e |-> "close", mode |-> "rb"])
    /\ pc' = IF exc = "none" THEN "l_return" ELSE "raised"
    /\ UNCHANGED <<fs, image, height, logo, history, args, i, html, wbuf, exc, pre>>

\* logo_data = f"data:image/png;base64,{base64_logo}"; return logo_data
DataUriPrefix == <<"data:image/png;base64,">>

LogoData(base64_logo) == DataUriPrefix \o base64_logo

LogoReturn ==
    /\ pc = "l_return"
    /\ logo' = Some(LogoData(html))
    /\ pc' = "returned"
    /\ UNCHANGED <<fs, image, height, history, args, i, html, handles, wbuf, exc,
                   events, pre>>

\* --------------------------------------------------------- add_html_header

\* html_content: the f-string of the header, with {logo} and {title} filled in
HtmlContent(logo_text, title) ==
    <<"LF", "<html><head><meta viewport><style>...</style></head>", "LF",
      "<body>", "LF", "<div class=header>", "LF", "<img src=", "\"">>
    \o logo_text
    \o <<"\"", " alt=\"Logo\">", "LF", "<h1>">>
    \o title
    \o <<"</h1>", "LF", "</div>", "LF", "<div class=content>", "LF">>

\* the logo texts the notebook can pass: its variable logo, or a literal URL
LogoArgs == {<<"logo.png">>} \cup (IF logo.none THEN {} ELSE {logo.val})

\* add_html_header(html_file, logo, title)
CallAddHtmlHeader ==
    /\ pc = "idle"
    /\ LastOp < OpIndex("add_html_header")
    /\ \E name \in FileNames, lg \in LogoArgs, title \in Titles :
          args' = [op |-> "add_html_header", html_file |-> name, logo |-> lg,
                   title |-> title]
    /\ pc' = "h_open_r"
    /\ pre' = [fs |-> fs, height |-> height]
    /\ i' = 0 /\ html' = <<>> /\ wbuf' = <<>> /\ exc' = "none" /\ events' = <<>>
    /\ UNCHANGED <<fs, image, height, logo, history, handles>>

\* with open(html_file, "r", errors="ignore") as f:
HeaderOpenRead ==
    /\ pc = "h_open_r"
    /\ \/ /\ handles' = handles \cup {Handle(args.html_file, "r")}
          /\ events' = Append(events, [e |-> "open", mode |-> "r"])
          /\ pc' = "h_read"
          /\ exc' = exc
       \/ /\ exc' = "open"
          /\ pc' = "raised"
          /\ UNCHANGED <<handles, events>>
    /\ UNCHANGED <<fs, image, height, logo, history, args, i, html, wbuf, pre>>

\* plotly_html = f.read()
HeaderRead ==
    /\ pc = "h_read"
    /\ \/ /\ html' = ReadText(fs[args.html_file])
          /\ exc' = exc
       \/ /\ exc' = "read"
          /\ html' = html
    /\ pc' = "h_close_r"
    /\ UNCHANGED <<fs, image, height, logo, history, args, i, handles, wbuf,
                   events, pre>>

\* a slip: the file read without a with block, and never closed
HeaderCloseReadLeak ==
    /\ pc = "h_close_r"
    /\ pc' = IF exc = "none" THEN "h_open_w" ELSE "raised"
    /\ UNCHANGED <<fs, image, height, logo, history, args, i, html, handles,
                   wbuf, exc, events, pre>>

\* the first with block is left, by its end or by the exception
HeaderCloseRead ==
    /\ pc = "h_close_r"
    /\ handles' = handles \ {Handle(args.html_file, "r")}
    /\ events' = Append(events, [e |-> "close", mode |-> "r"])
    /\ pc' = IF exc = "none" THEN "h_open_w" ELSE "raised"
    /\ UNCHANGED <<fs, image, height, logo, history, args, i, html, wbuf, exc, pre>>

\* a slip: the file opened with "a", so that the header follows the content
HeaderOpenAppend ==
    /\ pc = "h_open_w"
    /\ \/ /\ handles' = handles \cup {Handle(args.html_file, "w")}
          /\ wbuf' = fs[args.html_file]
          /\ events' = Append(events, [e |-> "open", mode |-> "w"])
          /\ pc' = "h_write"
          /\ exc' = exc
          /\ fs' = fs
       \/ /\ exc' = "open"
          /\ pc' = "raised"
          /\ UNCHANGED <<handles, fs, events, wbuf>>
    /\ UNCHANGED <<image, height, logo, history, args, i, html, pre>>

\* with open(html_file, "w") as f:
HeaderOpenWrite ==
    /\ pc = "h_open_w"
    /\ \/ /\ handles' = handles \cup {Handle(args.html_file, "w")}
          /\ fs' = [fs EXCEPT ![args.html_file] = <<>>]
          /\ events' = Append(events, [e |-> "open", mode |-> "w"])
          /\ pc' = "h_write"
          /\ exc' = exc
       \/ /\ exc' = "open"
          /\ pc' = "raised"
          /\ UNCHANGED <<handles, fs, events>>
    /\ UNCHANGED <<image, height, logo, history, args, i, html, wbuf, pre>>

\* a slip: the closing tags of the commented-out code written after all
HeaderTextWithFooter ==
    HtmlContent(args.logo, args.title) \o html \o <<"</body></html>">>

\* f.write(html_content + plotly_html)
HeaderText == HtmlContent(args.logo, args.title) \o html

HeaderWrite ==
    /\ pc = "h_write"
    /\ \/ /\ wbuf' = wbuf \o WriteText(HeaderText)
          /\ events' = Append(events, [e |-> "write", what |-> "header", i |-> 0])
          /\ exc' = exc
       \/ /\ exc' = "write"
          /\ UNCHANGED <<wbuf, events>>
    /\ pc' = "h_close_w"
    /\ UNCHANGED <<fs, image, height, logo, history, args, i, html, handles, pre>>

\* the second with block is left, by its end or by the exception
HeaderCloseWrite ==
    /\ pc = "h_close_w"
    /\ CloseWrite(args.html_file)
    /\ pc' = IF exc = "none" THEN "returned" ELSE "raised"
    /\ UNCHANGED <<image, height, logo, history, args, i, html, wbuf, exc, pre>>

\* ----------------------------------------------------------------- notebook

\* the call is over (returned or raised): the notebook goes on, and history
\* keeps the call's function, outcome, file and number of figures
CallFile ==
    IF args.op = "combine" THEN args.html_fname
    ELSE IF args.op = "add_html_header" THEN args.html_file
    ELSE args.file_location

CallFigs == IF args.op = "combine" THEN Len(args.plotly_figs) ELSE 0

Return ==
    /\ pc \in {"returned", "raised"}
    /\ pc' = "idle"
    /\ args' = NoArgs
    /\ i' = 0 /\ html' = <<>> /\ wbuf' = <<>> /\ exc' = "none" /\ events' = <<>>
    /\ pre' = [fs |-> fs, height |-> height]
    /\ history' = Append(history, [op |-> args.op, ok |-> pc = "returned",
                                   file |-> CallFile, n |-> CallFigs])
    /\ UNCHANGED <<fs, image, height, logo, handles>>

Next ==
    \/ CallCombine
    \/ CombineOpen
    \/ UpdateLayout
    \/ WriteSeparator
    \/ Export
    \/ WriteHtml
    \/ CombineClose
    \/ CombineUnwind
    \/ AutoOpen
    \/ CallConvertLogo
    \/ LogoOpen
    \/ LogoRead
    \/ LogoClose
    \/ LogoReturn
    \/ CallAddHtmlHeader
    \/ HeaderOpenRead
    \/ HeaderRead
    \/ HeaderCloseRead
    \/ HeaderOpenWrite
    \/ HeaderWrite
    \/ HeaderCloseWrite
    \/ Return

Spec == Init /\ [][Next]_vars

\* The header functions alone: on every small image with the file holding
\* "x", and on every small content of the file (undecodable bytes and
\* carriage returns included) with the image empty.
InitHeader ==
    /\ \E c \in SeqsUpTo(ContentTokens, MaxContentLen) :
          fs = [n \in FileNames |-> IF n = HtmlFile THEN c ELSE <<"old">>]
    /\ image \in SeqsUpTo(ByteVals, MaxImageLen)
    /\ fs[HtmlFile] = <<"x">> \/ image = <<>>
    /\ height = InitHeight
    /\ logo = NoneVal
    /\ history = <<>>
    /\ pre = [fs |-> fs, height |-> height]
    /\ Frame0

NextHeader ==
    \/ CallConvertLogo
    \/ LogoOpen
    \/ LogoRead
    \/ LogoClose
    \/ LogoReturn
    \/ CallAddHtmlHeader
    \/ HeaderOpenRead
    \/ HeaderRead
    \/ HeaderCloseRead
    \/ HeaderOpenWrite
    \/ HeaderWrite
    \/ HeaderCloseWrite
    \/ Return

SpecHeader == InitHeader /\ [][NextHeader]_vars

\* ------------------------------------------------------- reading the state

Combine == args.op = "combine"
CombineReturned == Combine /\ pc = "returned"
CombineOver == Combine /\ pc \in {"returned", "raised"}

IsExport(ev) == ev.e = "to_html"
Exports == SelectSeq(events, IsExport)
ExportHtml(ev) == ToHtml(ev.fig, ev.height, ev.full_html, ev.include_plotlyjs)

\* the text of an Optional string: None gives no text
TextOf(o) == IF o.none THEN <<>> ELSE o.val

\* the exports evs[k..], each two joined by s
RECURSIVE JoinFrom(_, _, _)
JoinFrom(evs, k, s) ==
    IF k > Len(evs) THEN <<>>
    ELSE ExportHtml(evs[k])
         \o (IF k < Len(evs) THEN s ELSE <<>>)
         \o JoinFrom(evs, k + 1, s)

\* how often the non-empty text s occurs in text
Occurrences(s, text) ==
    Cardinality({p \in 1..Len(text) :
        p + Len(s) - 1 <= Len(text) /\ SubSeq(text, p, p + Len(s) - 1) = s})

IsPrefix(a, b) == Len(a) <= Len(b) /\ SubSeq(b, 1, Len(a)) = a

EventsOf(kind) == {p \in 1..Len(events) : events[p].e = kind}
HtmlWrites ==
    {p \in 1..Len(events) : events[p].e = "write" /\ events[p].what = "html"}

\* ----------------------------------------------------------------- claims

\* C1: after combine_plotly_figs_to_html returns, the output file holds
\* exactly the N exports of the N figures, in the order of the input list,
\* with the separator once between each two of them (N-1 times), none before
\* the first or after the last, and nothing of its previous content.
C1_FragmentsInOrderSeparated ==
    CombineReturned =>
        LET figs == args.plotly_figs
            s == TextOf(args.separator)
            file == fs[args.html_fname]
        IN  /\ Len(Exports) = Len(figs)
            /\ \A k \in 1..Len(figs) :
                   Exports[k].fig = figs[k] /\ Exports[k].i = k - 1
            /\ file = JoinFrom(Exports, 1, s)
            /\ (s # <<>> /\ figs # <<>>)
                   => Occurrences(s, file) = Len(figs) - 1
            /\ Occurrences(<<"old">>, file) = 0

C1_Witness ==
    /\ CombineReturned
    /\ Len(args.plotly_figs) = 2
    /\ Truthy(args.separator)
    /\ pre.fs[args.html_fname] # <<>>

\* C3: only the first figure is exported as a complete document, with the
\* caller's include_plotlyjs; every later one as a fragment without the
\* Plotly library; and the complete document is written before any fragment.
C3_FirstFullRestFragments ==
    Combine =>
        /\ \A k \in 1..Len(Exports) :
               LET ev == Exports[k]
               IN  /\ ev.full_html <=> (ev.i = 0)
                   /\ (ev.i = 0) => ev.include_plotlyjs = args.include_plotlyjs
                   /\ (ev.i >= 1) => ev.include_plotlyjs = "False"
        /\ \A q \in HtmlWrites :
               events[q].i >= 1 =>
                   \E p \in HtmlWrites : p < q /\ events[p].i = 0
        /\ \A q \in HtmlWrites : events[q].i = 0 =>
               \A p \in HtmlWrites : p < q => FALSE

C3_Witness ==
    /\ CombineReturned
    /\ Len(args.plotly_figs) = 2
    /\ args.include_plotlyjs = "inline"

\* C5: combine_plotly_figs_to_html leaves every figure as it found it: once
\* the call is over, each figure's layout height is what it was before.
C5_FiguresReadOnly ==
    CombineOver => height = pre.height

\* C8: the browser is opened iff auto_open is true, at most once, and only
\* after every figure has been written and the output file closed.
C8_BrowserOnlyOnAutoOpenAfterClose ==
    Combine =>
        /\ Cardinality(EventsOf("browser")) <= 1
        /\ CombineReturned =>
               Cardinality(EventsOf("browser"))
                   = (IF args.auto_open THEN 1 ELSE 0)
        /\ \A b \in EventsOf("browser") :
               /\ args.auto_open
               /\ events[b].name = args.html_fname
               /\ Cardinality({p \in HtmlWrites : p < b})
                      = Len(args.plotly_figs)
               /\ \E c \in EventsOf("close") : c < b
               /\ handles = {}
               /\ \A p \in 1..Len(events) : p > b => FALSE

C8_Witness ==
    /\ CombineReturned
    /\ args.auto_open
    /\ Len(args.plotly_figs) = 2

\* C9: figure i is exported with height heights[i] exactly when heights is
\* given, non-empty and i < len(heights); every other figure is exported
\* with its own height, the one it had when the call was made.
C9_HeightOverridePositional ==
    Combine =>
        \A k \in 1..Len(Exports) :
            LET ev == Exports[k]
            IN  ev.height =
                    IF Truthy(args.heights) /\ ev.i < Len(args.heights.val)
                    THEN args.heights.val[ev.i + 1]
                    ELSE pre.height[ev.fig]

\* what a successful call writes from figure k on, the heights being hts
RECURSIVE CombineOutput(_, _, _)
CombineOutput(a, k, hts) ==
    IF k = Len(a.plotly_figs) THEN <<>>
    ELSE LET f == a.plotly_figs[k + 1]
             h2 == IF Truthy(a.heights) /\ k < Len(a.heights.val)
                   THEN [hts EXCEPT ![f] = a.heights.val[k + 1]]
                   ELSE hts
         IN  (IF k >= 1 /\ Truthy(a.separator) THEN a.separator.val ELSE <<>>)
             \o ToHtml(f, h2[f], k = 0,
                       IF k = 0 THEN a.include_plotlyjs ELSE "False")
             \o CombineOutput(a, k + 1, h2)

ExportRaised == Combine /\ pc = "raised" /\ exc = "to_html"

\* C10 as claimed: when the export of figure k raises, the file holds the
\* exports of figures 0..k-1 with their separators and nothing else, no
\* separator dangling at its end.
C10_NoDanglingSeparator ==
    ExportRaised =>
        fs[args.html_fname] = JoinFrom(Exports, 1, TextOf(args.separator))

\* C10 as amended: when the export of figure k raises, the error reaches the
\* caller after that one attempt, and the file holds the exports of figures
\* 0..k-1 with their separators, followed, when k >= 1 and the separator is
\* non-empty, by the separator written ahead of figure k; that is a prefix
\* of what a successful call would have written.
C10_PartialOutputOnExportError ==
    ExportRaised =>
        LET s == TextOf(args.separator)
            file == fs[args.html_fname]
        IN  /\ Len(Exports) = i
            /\ \A k \in 1..i : Exports[k].i = k - 1
            /\ Cardinality(EventsOf("to_html_raised")) = 1
            /\ \A p \in EventsOf("to_html_raised") :
                   /\ events[p].i = i
                   /\ \A q \in 1..Len(events) :
                          q > p => events[q].e = "close"
            /\ file = JoinFrom(Exports, 1, s) \o (IF i >= 1 THEN s ELSE <<>>)
            /\ IsPrefix(file, CombineOutput(args, 0, pre.height))
            /\ handles = {}

C10_Witness ==
    /\ ExportRaised
    /\ i = 1
    /\ Truthy(args.separator)

Header == args.op = "add_html_header"
HeaderReturned == Header /\ pc = "returned"

\* the src attribute of the first img tag of text: what stands between the
\* quote after "<img src=" and the next quote
ImgSrc(text) ==
    LET p == CHOOSE k \in 1..Len(text) :
                 /\ text[k] = "<img src="
                 /\ \A j \in 1..(k - 1) : text[j] # "<img src="
        q == CHOOSE k \in (p + 2)..Len(text) :
                 /\ text[k] = "\""
                 /\ \A j \in (p + 2)..(k - 1) : text[j] # "\""
    IN  SubSeq(text, p + 2, q - 1)

\* base64 decoding (RFC 4648): a letter's place in the alphabet is 6 bits,
\* 4 letters are 3 bytes, "=" in the last places marks 1 or 2 bytes
Sextet(ch) == CHOOSE k \in 0..63 : AsciiFrom43[B64Code(k) - 42] = ch

RECURSIVE B64Decode(_)
B64Decode(chars) ==
    IF Len(chars) < 4 THEN <<>>
    ELSE LET s1 == Sextet(chars[1])
             s2 == Sextet(chars[2])
             rest == B64Decode(SubSeq(chars, 5, Len(chars)))
         IN  IF chars[3] = "="
             THEN <<(s1 * 262144 + s2 * 4096) \div 65536>>
             ELSE IF chars[4] = "="
             THEN LET n == s1 * 262144 + s2 * 4096 + Sextet(chars[3]) * 64
                  IN  <<n \div 65536, (n \div 256) % 256>>
             ELSE LET n == s1 * 262144 + s2 * 4096 + Sextet(chars[3]) * 64
                           + Sextet(chars[4])
                  IN  <<n \div 65536, (n \div 256) % 256, n % 256>> \o rest

\* add_html_header has returned, and its logo was convert_logo's result
LogoThenHeader ==
    /\ HeaderReturned
    /\ \E k \in 1..Len(history) :
           history[k].op = "convert_logo" /\ history[k].ok
    /\ ~logo.none
    /\ args.logo = logo.val

\* C2 as claimed: after logo = convert_logo(image) and add_html_header(file,
\* logo, title), the src of the logo img tag is the base64 encoding of the
\* image's bytes.
C2_SrcIsBase64 ==
    LogoThenHeader =>
        ImgSrc(fs[args.html_file]) = Utf8Decode(b64encode(image))

\* C2 as amended: the src of the logo img tag is the data URI
\* "data:image/png;base64," followed by the base64 encoding of the image's
\* bytes: 4 letters for every 3 bytes begun, which decode to those bytes.
C2_SrcIsDataUriOfBase64 ==
    LogoThenHeader =>
        LET src == ImgSrc(fs[args.html_file])
            payload == SubSeq(src, Len(DataUriPrefix) + 1, Len(src))
        IN  /\ IsPrefix(DataUriPrefix, src)
            /\ Len(payload) = 4 * ((Len(image) + 2) \div 3)
            /\ B64Decode(payload) = image
            /\ payload = Utf8Decode(b64encode(image))

C2_Witness ==
    /\ LogoThenHeader
    /\ Len(image) = 2

CleanText(c) == \A k \in 1..Len(c) : c[k] \notin {"BAD", "CR"}

OtherFilesKept == \A n \in FileNames : n # args.html_file => fs[n] = pre.fs[n]

\* C4 as claimed: after add_html_header returns the file is the header
\* followed by its previous content, complete and unchanged, and no other
\* file is written.
C4_HeaderThenPreviousContent ==
    HeaderReturned =>
        /\ fs[args.html_file]
               = HtmlContent(args.logo, args.title) \o pre.fs[args.html_file]
        /\ OtherFilesKept

\* C4 as amended: after add_html_header returns the file is the header
\* followed by its previous content as a text-mode read with errors="ignore"
\* gives it (undecodable bytes dropped, "\r\n" and "\r" turned into "\n"),
\* which is the previous content itself when that has no such bytes and no
\* carriage return; nothing follows it, and no other file is written.
C4_HeaderThenContentAsRead ==
    HeaderReturned =>
        LET before == pre.fs[args.html_file]
            H == HtmlContent(args.logo, args.title)
        IN  /\ fs[args.html_file] = H \o ReadText(before)
            /\ CleanText(before) => fs[args.html_file] = H \o before
            /\ Len(fs[args.html_file]) <= Len(H) + Len(before)
            /\ OtherFilesKept

C4_Witness ==
    /\ HeaderReturned
    /\ pre.fs[args.html_file] = <<"x", "LF", "x">>

\* the documented sequence: combine_plotly_figs_to_html(figs, f, ...),
\* logo = convert_logo(image), add_html_header(f, logo, title), all returned
DocumentedSequence ==
    /\ HeaderReturned
    /\ Len(history) = 2
    /\ history[1].op = "combine" /\ history[1].ok
    /\ history[2].op = "convert_logo" /\ history[2].ok
    /\ args.html_file = history[1].file
    /\ args.logo = logo.val

IsHeaderStart(tok) == tok = "<div class=header>"
IsPlot(tok) ==
    \E f \in FigIds, h \in HeightVals \cup {InitHeight[g] : g \in FigIds} :
        tok = PlotToken(f, h)

\* the file is one header, and only plots follow it
OneHeaderThenPlots(file, n) ==
    LET H == HtmlContent(args.logo, args.title)
        rest == SubSeq(file, Len(H) + 1, Len(file))
    IN  /\ IsPrefix(H, file)
        /\ Len(SelectSeq(file, IsHeaderStart)) = 1
        /\ Len(SelectSeq(H, IsPlot)) = 0
        /\ Len(SelectSeq(rest, IsPlot)) = n
        /\ ImgSrc(file) = args.logo

\* C6 as claimed: after the documented sequence, for every figure list, the
\* file is exactly one static header followed by one or more chart fragments.
C6_HeaderThenOneOrMoreFragments ==
    DocumentedSequence =>
        \E n \in 1..(MaxFigs + 1) : OneHeaderThenPlots(fs[args.html_file], n)

\* C6 as amended: after the documented sequence, for every non-empty figure
\* list, the file is exactly one static header followed by one or more chart
\* fragments, one per figure; for the empty list it is the header alone.
C6_HeaderThenOneFragmentPerFigure ==
    DocumentedSequence =>
        /\ OneHeaderThenPlots(fs[args.html_file], history[1].n)
        /\ history[1].n = 0
               => fs[args.html_file] = HtmlContent(args.logo, args.title)

C6_Witness ==
    /\ DocumentedSequence
    /\ history[1].n = 2

\* C7: once a call has returned or raised, whatever failed in it, none of
\* its file handles is open; and add_html_header never holds its read handle
\* and its write handle at once.
C7_HandlesReleased ==
    /\ pc \in {"idle", "returned", "raised"} => handles = {}
    /\ \A n \in FileNames :
           ~(Handle(n, "r") \in handles /\ Handle(n, "w") \in handles)
    /\ Cardinality(handles) <= 1

C7_Witness ==
    /\ Header
    /\ pc = "raised"
    /\ exc = "write"

====
